---------------------------- MODULE Spec2Model ----------------------------
(***************************************************************************)
(* EcoPilot's EcoLogits provider: the model-name resolution of             *)
(* model_mappings.py (alias table construction, provider detection, alias  *)
(* lookup) and the one-shot process of calculate_impact.py.                *)
(*                                                                         *)
(* A Python str is modelled as the sequence of its characters, so that     *)
(* lower(), replace() and the substring test `in` are computed character   *)
(* by character as Python computes them.  Provider identifiers are only    *)
(* ever compared for equality and are kept as TLA+ strings.                *)
(***************************************************************************)
EXTENDS Integers, Sequences, FiniteSets, TLC

VARIABLES
    ECOLOGITS_MODELS,   \* the imported registry: provider -> list of canonical names
    MODEL_CACHE,        \* _MODEL_CACHE: [built |-> FALSE] is Python's None
    call,               \* the last library call made and what it returned
    pc,                 \* position of the calculate_impact.py script
    argv,               \* sys.argv[1:], each argument a str
    env,                \* the script's module-level variables
    impacts,            \* what llm_impacts returned
    stdout,             \* the JSON objects printed to standard output, in order
    exit_code,          \* the process's exit status, "running" until it ends
    llm_calls           \* the calls made to the external estimator, in order

vars == <<ECOLOGITS_MODELS, MODEL_CACHE, call, pc, argv, env, impacts, stdout,
          exit_code, llm_calls>>

libvars == <<ECOLOGITS_MODELS, MODEL_CACHE, call>>
procvars == <<pc, argv, env, impacts, stdout, exit_code, llm_calls>>

-----------------------------------------------------------------------------
(* Bounds of the model.                                                    *)

\* longest list of canonical names the varied provider of a registry holds
MaxModels == 2

-----------------------------------------------------------------------------
(* Python str operations.                                                  *)

\* Python's None, a value that is no str (no str has the character "None")
NoneVal == <<"None">>

UpperChars == <<"A", "B", "C", "D", "E", "F", "G", "H", "I", "J", "K", "L", "M",
                "N", "O", "P", "Q", "R", "S", "T", "U", "V", "W", "X", "Y", "Z">>
LowerChars == <<"a", "b", "c", "d", "e", "f", "g", "h", "i", "j", "k", "l", "m",
                "n", "o", "p", "q", "r", "s", "t", "u", "v", "w", "x", "y", "z">>

LowerChar(c) ==
    IF \E i \in 1..Len(UpperChars) : UpperChars[i] = c
    THEN LowerChars[CHOOSE i \in 1..Len(UpperChars) : UpperChars[i] = c]
    ELSE c

UpperChar(c) ==
    IF \E i \in 1..Len(LowerChars) : LowerChars[i] = c
    THEN UpperChars[CHOOSE i \in 1..Len(LowerChars) : LowerChars[i] = c]
    ELSE c

\* str.lower()
Lower(s) == [i \in 1..Len(s) |-> LowerChar(s[i])]

\* str.upper(), used only to build inputs that differ in letter case
Upper(s) == [i \in 1..Len(s) |-> UpperChar(s[i])]

\* `sub in s`
Contains(s, sub) ==
    \E i \in 1..(Len(s) - Len(sub) + 1) : SubSeq(s, i, i + Len(sub) - 1) = sub

\* s.replace(old, new): every non-overlapping occurrence, left to right
RECURSIVE Replace(_, _, _)
Replace(s, old, new) ==
    IF Len(s) < Len(old) THEN s
    ELSE IF SubSeq(s, 1, Len(old)) = old
         THEN new \o Replace(SubSeq(s, Len(old) + 1, Len(s)), old, new)
         ELSE <<Head(s)>> \o Replace(Tail(s), old, new)

\* a Python dict: a function on its key set; d[k] = v
EmptyDict == [k \in {} |-> NoneVal]
Put(d, k, v) == [x \in (DOMAIN d) \cup {k} |-> IF x = k THEN v ELSE d[x]]

-----------------------------------------------------------------------------
(* String literals of model_mappings.py.                                   *)

kw_claude == <<"c", "l", "a", "u", "d", "e">>
kw_gemini == <<"g", "e", "m", "i", "n", "i">>
kw_grok == <<"g", "r", "o", "k">>
kw_mistral == <<"m", "i", "s", "t", "r", "a", "l">>
kw_codestral == <<"c", "o", "d", "e", "s", "t", "r", "a", "l">>
kw_devstral == <<"d", "e", "v", "s", "t", "r", "a", "l">>
kw_magistral == <<"m", "a", "g", "i", "s", "t", "r", "a", "l">>
kw_ministral == <<"m", "i", "n", "i", "s", "t", "r", "a", "l">>
kw_pixtral == <<"p", "i", "x", "t", "r", "a", "l">>
kw_voxtral == <<"v", "o", "x", "t", "r", "a", "l">>
kw_command == <<"c", "o", "m", "m", "a", "n", "d">>
kw_aya == <<"a", "y", "a">>
seg_claude_3_5 == <<"c", "l", "a", "u", "d", "e", "-", "3", "-", "5", "-">>
seg_claude_3dot5 == <<"c", "l", "a", "u", "d", "e", "-", "3", ".", "5", "-">>
seg_claude_3_7 == <<"c", "l", "a", "u", "d", "e", "-", "3", "-", "7", "-">>
seg_claude_3dot7 == <<"c", "l", "a", "u", "d", "e", "-", "3", ".", "7", "-">>
seg_latest == <<"-", "l", "a", "t", "e", "s", "t">>
lit_gpt_35_turbo == <<"g", "p", "t", "-", "3", "5", "-", "t", "u", "r", "b", "o">>
lit_gpt35_turbo == <<"g", "p", "t", "3", "5", "-", "t", "u", "r", "b", "o">>
lit_gpt_3dot5_turbo == <<"g", "p", "t", "-", "3", ".", "5", "-", "t", "u", "r", "b", "o">>
lit_gpt_3dot5 == <<"g", "p", "t", "-", "3", ".", "5">>

-----------------------------------------------------------------------------
(* Inputs: canonical names, caller-supplied names and command-line words.  *)

n_claude_3_5_sonnet == <<"c", "l", "a", "u", "d", "e", "-", "3", "-", "5", "-", "s", "o", "n", "n", "e", "t">>
n_claude_3_5_sonnet_latest == <<"c", "l", "a", "u", "d", "e", "-", "3", "-", "5", "-", "s", "o", "n", "n", "e", "t", "-", "l", "a", "t", "e", "s", "t">>
n_Claude_3_5_Sonnet == <<"C", "l", "a", "u", "d", "e", "-", "3", "-", "5", "-", "S", "o", "n", "n", "e", "t">>
n_claude_3_7_sonnet_latest == <<"c", "l", "a", "u", "d", "e", "-", "3", "-", "7", "-", "s", "o", "n", "n", "e", "t", "-", "l", "a", "t", "e", "s", "t">>
n_claude_latest_latest == <<"c", "l", "a", "u", "d", "e", "-", "l", "a", "t", "e", "s", "t", "-", "l", "a", "t", "e", "s", "t">>
n_claude_3dot5_sonnet == <<"c", "l", "a", "u", "d", "e", "-", "3", ".", "5", "-", "s", "o", "n", "n", "e", "t">>
n_claude_3_7_sonnet == <<"c", "l", "a", "u", "d", "e", "-", "3", "-", "7", "-", "s", "o", "n", "n", "e", "t">>
n_claude_3dot7_sonnet == <<"c", "l", "a", "u", "d", "e", "-", "3", ".", "7", "-", "s", "o", "n", "n", "e", "t">>
n_claude_latest == <<"c", "l", "a", "u", "d", "e", "-", "l", "a", "t", "e", "s", "t">>
n_CLAUDE_3_5_SONNET_LATEST == <<"C", "L", "A", "U", "D", "E", "-", "3", "-", "5", "-", "S", "O", "N", "N", "E", "T", "-", "L", "A", "T", "E", "S", "T">>
n_gpt_4 == <<"g", "p", "t", "-", "4">>
n_GPT_4 == <<"G", "P", "T", "-", "4">>
n_Gpt_4 == <<"G", "p", "t", "-", "4">>
n_gemini_1dot5_pro == <<"g", "e", "m", "i", "n", "i", "-", "1", ".", "5", "-", "p", "r", "o">>
n_mistral_large_latest == <<"m", "i", "s", "t", "r", "a", "l", "-", "l", "a", "r", "g", "e", "-", "l", "a", "t", "e", "s", "t">>
n_mistral_large == <<"m", "i", "s", "t", "r", "a", "l", "-", "l", "a", "r", "g", "e">>
n_grok_2 == <<"g", "r", "o", "k", "-", "2">>
n_claude_mistral == <<"c", "l", "a", "u", "d", "e", "-", "m", "i", "s", "t", "r", "a", "l">>
n_Mistral_Claude == <<"M", "i", "s", "t", "r", "a", "l", "-", "C", "l", "a", "u", "d", "e">>
n_some_unknown_model_xyz == <<"s", "o", "m", "e", "-", "u", "n", "k", "n", "o", "w", "n", "-", "m", "o", "d", "e", "l", "-", "x", "y", "z">>
a_100 == <<"1", "0", "0">>
a_50 == <<"5", "0">>
a_abc == <<"a", "b", "c">>
a_1dot2 == <<"1", ".", "2">>
a_0dot5 == <<"0", ".", "5">>
a_minus1 == <<"-", "1">>
a_5x == <<"5", "x">>
a_fast == <<"f", "a", "s", "t">>
a_FRA == <<"F", "R", "A">>
a_empty == <<>>

-----------------------------------------------------------------------------
(* model_mappings.py: alias table construction.                            *)

\* cache[provider_str][model_name] = model_name
AddExact(table, model_name) == Put(table, model_name, model_name)

AddLower_ValueLowered(table, model_name) ==
    Put(table, Lower(model_name), Lower(model_name))

\* cache[provider_str][model_name.lower()] = model_name
AddLower(table, model_name) == Put(table, Lower(model_name), model_name)

AddDot35_AliasAsValue(table, model_name) ==
    IF Contains(model_name, seg_claude_3_5)
    THEN Put(table, Replace(model_name, seg_claude_3_5, seg_claude_3dot5),
             Replace(model_name, seg_claude_3_5, seg_claude_3dot5))
    ELSE table

AddDot35_Skipped(table, model_name) == table

\* if 'claude-3-5-' in model_name: alias with 'claude-3.5-'
AddDot35(table, model_name) ==
    IF Contains(model_name, seg_claude_3_5)
    THEN Put(table, Replace(model_name, seg_claude_3_5, seg_claude_3dot5), model_name)
    ELSE table

\* if 'claude-3-7-' in model_name: alias with 'claude-3.7-'
AddDot37(table, model_name) ==
    IF Contains(model_name, seg_claude_3_7)
    THEN Put(table, Replace(model_name, seg_claude_3_7, seg_claude_3dot7), model_name)
    ELSE table

AddLatest_NoBase(table, model_name) ==
    IF Contains(model_name, seg_latest)
    THEN LET base == Replace(model_name, seg_latest, <<>>)
         IN  AddDot37(AddDot35(table, base), base)
    ELSE table

\* if '-latest' in model_name: the base name and its dot notations
AddLatest(table, model_name) ==
    IF Contains(model_name, seg_latest)
    THEN LET base == Replace(model_name, seg_latest, <<>>)
             t1 == Put(table, base, model_name)
             t2 == IF Contains(base, seg_claude_3_5)
                   THEN Put(t1, Replace(base, seg_claude_3_5, seg_claude_3dot5),
                            model_name)
                   ELSE t1
             t3 == IF Contains(base, seg_claude_3_7)
                   THEN Put(t2, Replace(base, seg_claude_3_7, seg_claude_3dot7),
                            model_name)
                   ELSE t2
         IN  t3
    ELSE table

\* elif provider_str == 'openai': the Azure style name and the shortcuts
AddOpenAI(table, model_name) ==
    LET t1 == IF model_name = lit_gpt_35_turbo
              THEN Put(table, lit_gpt35_turbo, model_name)
              ELSE table
        t2 == IF model_name = lit_gpt_3dot5_turbo
              THEN Put(Put(t1, lit_gpt_3dot5, model_name), lit_gpt35_turbo, model_name)
              ELSE t1
    IN  t2

\* the body of `for model_name in models`
AddModel(table, provider_str, model_name) ==
    LET t == AddLower(AddExact(table, model_name), model_name)
    IN  IF provider_str = "anthropic"
        THEN AddLatest(AddDot37(AddDot35(t, model_name), model_name), model_name)
        ELSE IF provider_str = "openai"
             THEN AddOpenAI(t, model_name)
             ELSE t

\* `for model_name in models`, in list order, starting from table
RECURSIVE AddModels(_, _, _)
AddModels(table, provider_str, models) ==
    IF models = <<>> THEN table
    ELSE AddModels(AddModel(table, provider_str, Head(models)), provider_str,
                   Tail(models))

\* _build_model_cache(): one table per provider of the registry
build_model_cache(registry) ==
    [provider_str \in DOMAIN registry |->
        AddModels(EmptyDict, provider_str, registry[provider_str])]

\* get_model_cache(): the cache after the call, built on first use
get_model_cache(cache, registry) ==
    IF cache.built THEN cache
    ELSE [built |-> TRUE, tables |-> build_model_cache(registry)]

-----------------------------------------------------------------------------
(* model_mappings.py: provider detection.                                  *)

\* PROVIDER_KEYWORDS, in declaration order (a dict iterates in insertion order)
PROVIDER_KEYWORDS ==
    << [provider |-> "anthropic", keywords |-> <<kw_claude>>],
       [provider |-> "google",    keywords |-> <<kw_gemini>>],
       [provider |-> "xai",       keywords |-> <<kw_grok>>],
       [provider |-> "mistralai", keywords |-> <<kw_mistral, kw_codestral, kw_devstral,
                                                 kw_magistral, kw_ministral, kw_pixtral,
                                                 kw_voxtral>>],
       [provider |-> "cohere",    keywords |-> <<kw_command, kw_aya>>],
       [provider |-> "openai",    keywords |-> <<>>] >>

\* the two nested loops of detect_provider over model_lower, from entry i on
RECURSIVE ScanProviders(_, _)
ScanProviders(model_lower, i) ==
    IF i > Len(PROVIDER_KEYWORDS) THEN "openai"
    ELSE IF \E k \in 1..Len(PROVIDER_KEYWORDS[i].keywords) :
                Contains(model_lower, PROVIDER_KEYWORDS[i].keywords[k])
         THEN PROVIDER_KEYWORDS[i].provider
         ELSE ScanProviders(model_lower, i + 1)

detect_provider_NoLower(model_name) == ScanProviders(model_name, 1)

RECURSIVE ScanNoDefault(_, _)
ScanNoDefault(model_lower, i) ==
    IF i > Len(PROVIDER_KEYWORDS) THEN "unknown"
    ELSE IF \E k \in 1..Len(PROVIDER_KEYWORDS[i].keywords) :
                Contains(model_lower, PROVIDER_KEYWORDS[i].keywords[k])
         THEN PROVIDER_KEYWORDS[i].provider
         ELSE ScanNoDefault(model_lower, i + 1)

detect_provider_NoDefault(model_name) == ScanNoDefault(Lower(model_name), 1)

\* detect_provider(model_name)
detect_provider(model_name) == ScanProviders(Lower(model_name), 1)

-----------------------------------------------------------------------------
(* model_mappings.py: alias lookup.                                        *)

get_model_mapping_OpenAIFallback(cache, provider, model_name) ==
    LET provider_mappings ==
            IF provider \in DOMAIN cache.tables THEN cache.tables[provider]
            ELSE cache.tables["openai"]
    IN  IF model_name \in DOMAIN provider_mappings
        THEN provider_mappings[model_name]
        ELSE IF Lower(model_name) \in DOMAIN provider_mappings
             THEN provider_mappings[Lower(model_name)]
             ELSE NoneVal

\* get_model_mapping(provider, model_name) on the cache get_model_cache() returned
get_model_mapping(cache, provider, model_name) ==
    LET provider_mappings ==
            IF provider \in DOMAIN cache.tables THEN cache.tables[provider]
            ELSE EmptyDict
    IN  IF model_name \in DOMAIN provider_mappings
        THEN provider_mappings[model_name]
        ELSE IF Lower(model_name) \in DOMAIN provider_mappings
             THEN provider_mappings[Lower(model_name)]
             ELSE NoneVal

-----------------------------------------------------------------------------
(* The registries and inputs the model is run on.                          *)

\* canonical names the anthropic list is drawn from
AnthropicNames ==
    { n_claude_3_5_sonnet, n_claude_3_5_sonnet_latest, n_Claude_3_5_Sonnet,
      n_claude_3_7_sonnet_latest, n_claude_latest_latest }

\* canonical names the openai list is drawn from
OpenAINames ==
    { n_gpt_4, n_GPT_4, lit_gpt_3dot5_turbo, lit_gpt_35_turbo, lit_gpt_3dot5 }

\* the lists of at most MaxModels distinct names of S, in every order
RECURSIVE ListsOver(_, _)
ListsOver(S, n) ==
    IF n = 0 THEN { <<>> }
    ELSE LET shorter == ListsOver(S, n - 1)
         IN  shorter \cup { Append(l, x) : l \in shorter, x \in S }

NoRepeat(l) == \A i, j \in 1..Len(l) : l[i] = l[j] => i = j

ModelLists(S) == { l \in ListsOver(S, MaxModels) : NoRepeat(l) }

\* a registry has no xai and no cohere list; one of its two rule-bearing
\* providers has a varied list
Registry(anthropic, openai) ==
    [p \in {"anthropic", "openai", "google", "mistralai"} |->
        CASE p = "anthropic" -> anthropic
          [] p = "openai"    -> openai
          [] p = "google"    -> <<n_gemini_1dot5_pro>>
          [] p = "mistralai" -> <<n_mistral_large_latest>>]

Registries ==
    { Registry(l, <<n_gpt_4>>) : l \in ModelLists(AnthropicNames) }
    \cup { Registry(<<n_claude_3_5_sonnet_latest>>, l) : l \in ModelLists(OpenAINames) }

\* provider ids a caller may pass: the keys of PROVIDER_KEYWORDS
ProviderIds == { PROVIDER_KEYWORDS[i].provider : i \in 1..Len(PROVIDER_KEYWORDS) }

\* model names a caller may pass
ModelNames ==
    AnthropicNames \cup OpenAINames \cup
    { n_claude_3dot5_sonnet, n_claude_3_7_sonnet, n_claude_3dot7_sonnet,
      n_claude_latest, n_CLAUDE_3_5_SONNET_LATEST, n_Gpt_4, lit_gpt35_turbo,
      n_gemini_1dot5_pro, n_mistral_large, n_grok_2, n_claude_mistral,
      n_Mistral_Claude, n_some_unknown_model_xyz }

-----------------------------------------------------------------------------
(* The library called directly: any provider id, any model name.           *)

\* no call made yet
NoCall ==
    [op |-> "none", state |-> "returned", provider |-> "", model_name |-> NoneVal,
     result |-> NoneVal]

ProcIdle ==
    /\ pc = "idle"
    /\ argv = <<>>
    /\ env = [model_name |-> NoneVal]
    /\ impacts = [raised |-> FALSE]
    /\ stdout = <<>>
    /\ exit_code = 0
    /\ llm_calls = <<>>

InitMapper ==
    /\ ECOLOGITS_MODELS \in Registries
    /\ MODEL_CACHE = [built |-> FALSE, tables |-> [p \in {} |-> EmptyDict]]
    /\ call = NoCall
    /\ ProcIdle

\* a caller invokes get_model_mapping(provider, model_name)
InvokeGetModelMapping(provider, model_name) ==
    /\ call.state = "returned"
    /\ call' = [op |-> "get_model_mapping", state |-> "running",
                provider |-> provider, model_name |-> model_name, result |-> NoneVal]
    /\ UNCHANGED <<ECOLOGITS_MODELS, MODEL_CACHE, procvars>>

\* get_model_mapping runs: the cache is built if it was not, and the lookup returns
ReturnGetModelMapping ==
    /\ call.op = "get_model_mapping"
    /\ call.state = "running"
    /\ LET cache == get_model_cache(MODEL_CACHE, ECOLOGITS_MODELS)
       IN  /\ MODEL_CACHE' = cache
           /\ call' = [call EXCEPT !.state = "returned",
                          !.result = get_model_mapping(cache, call.provider,
                                                       call.model_name)]
    /\ UNCHANGED <<ECOLOGITS_MODELS, procvars>>

\* a caller invokes detect_provider(model_name)
InvokeDetectProvider(model_name) ==
    /\ call.state = "returned"
    /\ call' = [op |-> "detect_provider", state |-> "running", provider |-> "",
                model_name |-> model_name, result |-> NoneVal]
    /\ UNCHANGED <<ECOLOGITS_MODELS, MODEL_CACHE, procvars>>

\* detect_provider runs and returns the provider id
ReturnDetectProvider ==
    /\ call.op = "detect_provider"
    /\ call.state = "running"
    /\ call' = [call EXCEPT !.state = "returned",
                   !.provider = detect_provider(call.model_name)]
    /\ UNCHANGED <<ECOLOGITS_MODELS, MODEL_CACHE, procvars>>

NextMapper ==
    \/ \E provider \in ProviderIds, model_name \in ModelNames :
          InvokeGetModelMapping(provider, model_name)
    \/ ReturnGetModelMapping
    \/ \E model_name \in ModelNames : InvokeDetectProvider(model_name)
    \/ ReturnDetectProvider

SpecMapper == InitMapper /\ [][NextMapper]_vars


-----------------------------------------------------------------------------
(* calculate_impact.py: argument parsing.                                  *)

DigitChars == <<"0", "1", "2", "3", "4", "5", "6", "7", "8", "9">>

IsDigit(c) == \E i \in 1..Len(DigitChars) : DigitChars[i] = c

DigitValue(c) == (CHOOSE i \in 1..Len(DigitChars) : DigitChars[i] = c) - 1

\* s without a leading sign
Unsigned(s) == IF s # <<>> /\ Head(s) \in {"+", "-"} THEN Tail(s) ELSE s

\* the number a string of digits denotes
RECURSIVE DigitsValue(_)
DigitsValue(s) ==
    IF s = <<>> THEN 0
    ELSE 10 * DigitsValue(SubSeq(s, 1, Len(s) - 1)) + DigitValue(s[Len(s)])

Signed(s, n) == IF s # <<>> /\ Head(s) = "-" THEN 0 - n ELSE n

\* int(s) does not raise ValueError: an optional sign and decimal digits
\* (the inputs hold no blanks and no underscores, which int() also accepts)
IsIntLiteral(s) ==
    /\ Unsigned(s) # <<>>
    /\ \A i \in 1..Len(Unsigned(s)) : IsDigit(Unsigned(s)[i])

\* int(s)
IntValue(s) == Signed(s, DigitsValue(Unsigned(s)))

\* the characters of s that are not "."
DropDots(s) == SelectSeq(s, LAMBDA c : c # ".")

\* float(s) does not raise ValueError: an optional sign, decimal digits and at
\* most one point (the inputs hold no exponent, "inf" or "nan")
IsFloatLiteral(s) ==
    /\ DropDots(Unsigned(s)) # <<>>
    /\ Len(Unsigned(s)) - Len(DropDots(Unsigned(s))) <= 1
    /\ \A i \in 1..Len(DropDots(Unsigned(s))) : IsDigit(DropDots(Unsigned(s))[i])

\* the number of digits after the point
FractionDigits(s) ==
    IF \E i \in 1..Len(s) : s[i] = "."
    THEN Len(s) - (CHOOSE i \in 1..Len(s) : s[i] = ".")
    ELSE 0

\* float(s), as mantissa * 10^exponent
FloatValue(s) ==
    [mantissa |-> Signed(s, DigitsValue(DropDots(Unsigned(s)))),
     exponent |-> 0 - FractionDigits(s)]

\* the try block of lines 7-13 raises neither IndexError nor ValueError
ArgsParse(args) ==
    /\ Len(args) >= 4
    /\ IsIntLiteral(args[1])
    /\ IsIntLiteral(args[2])
    /\ IsFloatLiteral(args[3])

\* the exception the try block raises, by Python's left-to-right evaluation
ArgsError(args) ==
    IF Len(args) < 1 THEN "IndexError"
    ELSE IF ~IsIntLiteral(args[1]) THEN "ValueError"
    ELSE IF Len(args) < 2 THEN "IndexError"
    ELSE IF ~IsIntLiteral(args[2]) THEN "ValueError"
    ELSE IF Len(args) < 3 THEN "IndexError"
    ELSE IF ~IsFloatLiteral(args[3]) THEN "ValueError"
    ELSE "IndexError"

\* the zero-valued JSON object of the three failure paths
ErrorResult(message) ==
    [gwp_g |-> 0, pe_mj |-> 0, adpe_kgsbeq |-> 0, energy_kwh |-> 0, error |-> message]

-----------------------------------------------------------------------------
(* calculate_impact.py: the external estimator and the result.             *)

Scalar(v) == [kind |-> "scalar", value |-> v]
RangeValue(lo, hi) == [kind |-> "range", min |-> lo, max |-> hi]

\* what llm_impacts may return (values in micro-units): plain values with the
\* usage and embodied phases, or ranges without them
ImpactResults ==
    { [gwp |-> Scalar(4), pe |-> Scalar(6), adpe |-> Scalar(2), energy |-> Scalar(8),
       usage    |-> [gwp |-> Scalar(3), pe |-> Scalar(5), adpe |-> Scalar(1)],
       embodied |-> [gwp |-> Scalar(1), pe |-> Scalar(1), adpe |-> Scalar(1)]],
      [gwp |-> RangeValue(2, 6), pe |-> RangeValue(4, 8), adpe |-> RangeValue(0, 2),
       energy |-> RangeValue(6, 10)] }

\* get_value(val): the midpoint of a RangeValue, the value otherwise
get_value(val) ==
    IF val.kind = "range" THEN (val.min + val.max) \div 2 ELSE val.value

\* hasattr(obj, attr)
hasattr(obj, attr) == attr \in DOMAIN obj

\* the success JSON object of lines 65-98
SuccessResult(imp, e) ==
    [gwp_g |-> get_value(imp.gwp) * 1000,
     pe_mj |-> get_value(imp.pe),
     adpe_kgsbeq |-> get_value(imp.adpe),
     energy_kwh |-> get_value(imp.energy),
     usage |->
        [gwp_g |-> IF hasattr(imp, "usage") THEN get_value(imp.usage.gwp) * 1000 ELSE 0,
         pe_mj |-> IF hasattr(imp, "usage") THEN get_value(imp.usage.pe) ELSE 0,
         adpe_kgsbeq |-> IF hasattr(imp, "usage") THEN get_value(imp.usage.adpe) ELSE 0],
     embodied |->
        [gwp_g |-> IF hasattr(imp, "embodied")
                   THEN get_value(imp.embodied.gwp) * 1000 ELSE 0,
         pe_mj |-> IF hasattr(imp, "embodied") THEN get_value(imp.embodied.pe) ELSE 0,
         adpe_kgsbeq |-> IF hasattr(imp, "embodied")
                         THEN get_value(imp.embodied.adpe) ELSE 0],
     model |-> e.model_name,
     input_tokens |-> e.input_token_count,
     output_tokens |-> e.output_token_count,
     total_tokens |-> e.input_token_count + e.output_token_count,
     latency |-> e.request_latency]

-----------------------------------------------------------------------------
(* calculate_impact.py: the process, one run per behaviour.                *)

\* the command lines the process is started with
ArgVectors ==
    { <<a_100, a_50, a_1dot2, name>> : name \in ModelNames }
    \cup { <<a_100, a_50, a_0dot5, name, zone>> :
             name \in {n_gpt_4, n_claude_3dot5_sonnet}, zone \in {a_FRA, a_empty} }
    \cup { <<>>, <<a_100, a_50>>, <<a_100, a_50, a_1dot2>>,
           <<a_abc, a_50, a_1dot2, n_gpt_4>>, <<a_100, a_5x, a_1dot2, n_gpt_4>>,
           <<a_100, a_50, a_fast, n_gpt_4>>, <<a_1dot2, a_50, a_1dot2, n_gpt_4>>,
           <<a_minus1, a_50, a_100, n_gpt_4>> }

\* the variables not yet bound
NoEnv ==
    [input_token_count |-> 0, output_token_count |-> 0,
     request_latency |-> [mantissa |-> 0, exponent |-> 0],
     model_name |-> NoneVal, electricity_mix_zone |-> NoneVal,
     provider |-> "", mapped_model_name |-> NoneVal]

NoImpacts == [raised |-> FALSE, value |-> [k \in {} |-> NoneVal]]

Init ==
    /\ ECOLOGITS_MODELS \in Registries
    /\ MODEL_CACHE = [built |-> FALSE, tables |-> [p \in {} |-> EmptyDict]]
    /\ call = NoCall
    /\ pc = "parse"
    /\ argv \in ArgVectors
    /\ env = NoEnv
    /\ impacts = NoImpacts
    /\ stdout = <<>>
    /\ exit_code = 0
    /\ llm_calls = <<>>

\* lines 7-24: parse the arguments, or print the error object and exit 1
ParseArgs ==
    /\ pc = "parse"
    /\ IF ArgsParse(argv)
       THEN /\ env' = [env EXCEPT
                          !.input_token_count = IntValue(argv[1]),
                          !.output_token_count = IntValue(argv[2]),
                          !.request_latency = FloatValue(argv[3]),
                          !.model_name = argv[4],
                          !.electricity_mix_zone =
                              IF Len(argv) > 4 THEN argv[5] ELSE NoneVal]
            /\ pc' = "detect"
            /\ UNCHANGED <<stdout, exit_code>>
       ELSE /\ stdout' = Append(stdout, ErrorResult("Invalid arguments: " \o ArgsError(argv)))
            /\ exit_code' = 1
            /\ pc' = "exited"
            /\ UNCHANGED env
    /\ UNCHANGED <<libvars, argv, impacts, llm_calls>>

\* line 30: provider = detect_provider(model_name)
DetectProvider ==
    /\ pc = "detect"
    /\ env' = [env EXCEPT !.provider = detect_provider(env.model_name)]
    /\ pc' = "map"
    /\ UNCHANGED <<libvars, argv, impacts, stdout, exit_code, llm_calls>>

\* line 33: mapped_model_name = get_model_mapping(provider, model_name)
MapModel ==
    /\ pc = "map"
    /\ LET cache == get_model_cache(MODEL_CACHE, ECOLOGITS_MODELS)
       IN  /\ MODEL_CACHE' = cache
           /\ env' = [env EXCEPT !.mapped_model_name =
                          get_model_mapping(cache, env.provider, env.model_name)]
    /\ pc' = "check"
    /\ UNCHANGED <<ECOLOGITS_MODELS, call, argv, impacts, stdout, exit_code, llm_calls>>

\* `not mapped_model_name`: None or the empty str
Falsy(s) == s = NoneVal \/ s = <<>>

ModelNotFound_ExitCaught ==
    /\ pc = "check"
    /\ Falsy(env.mapped_model_name)
    /\ stdout' = Append(stdout, ErrorResult("Model not found in EcoLogits repository"))
    /\ pc' = "except"
    /\ UNCHANGED <<libvars, argv, env, impacts, exit_code, llm_calls>>

\* lines 36-46: print the error object and sys.exit(1); SystemExit is no
\* Exception, so the handler of line 101 does not catch it
ModelNotFound ==
    /\ pc = "check"
    /\ Falsy(env.mapped_model_name)
    /\ stdout' = Append(stdout, ErrorResult("Model not found in EcoLogits repository"))
    /\ exit_code' = 1
    /\ pc' = "exited"
    /\ UNCHANGED <<libvars, argv, env, impacts, llm_calls>>

\* line 36 when the name was mapped
ModelFound ==
    /\ pc = "check"
    /\ ~Falsy(env.mapped_model_name)
    /\ pc' = "estimate"
    /\ UNCHANGED <<libvars, argv, env, impacts, stdout, exit_code, llm_calls>>

CallEstimator_RawName ==
    /\ pc = "estimate"
    /\ llm_calls' = Append(llm_calls,
          [provider |-> env.provider,
           model_name |-> env.model_name,
           output_token_count |-> env.output_token_count,
           request_latency |-> env.request_latency,
           electricity_mix_zone |-> env.electricity_mix_zone])
    /\ \/ \E r \in ImpactResults :
             /\ impacts' = [raised |-> FALSE, value |-> r]
             /\ pc' = "format"
       \/ /\ impacts' = [impacts EXCEPT !.raised = TRUE]
          /\ pc' = "except"
    /\ UNCHANGED <<libvars, argv, env, stdout, exit_code>>

\* lines 52-58: llm_impacts(...) returns impacts or raises
CallEstimator ==
    /\ pc = "estimate"
    /\ llm_calls' = Append(llm_calls,
          [provider |-> env.provider,
           model_name |-> env.mapped_model_name,
           output_token_count |-> env.output_token_count,
           request_latency |-> env.request_latency,
           electricity_mix_zone |-> env.electricity_mix_zone])
    /\ \/ \E r \in ImpactResults :
             /\ impacts' = [raised |-> FALSE, value |-> r]
             /\ pc' = "format"
       \/ /\ impacts' = [impacts EXCEPT !.raised = TRUE]
          /\ pc' = "except"
    /\ UNCHANGED <<libvars, argv, env, stdout, exit_code>>

\* lines 60-100: build and print the result; the script ends, exit status 0
PrintResult ==
    /\ pc = "format"
    /\ stdout' = Append(stdout, SuccessResult(impacts.value, env))
    /\ pc' = "exited"
    /\ UNCHANGED <<libvars, argv, env, impacts, exit_code, llm_calls>>

ExceptHandler_Exit1 ==
    /\ pc = "except"
    /\ stdout' = Append(stdout, ErrorResult("estimator failure"))
    /\ exit_code' = 1
    /\ pc' = "exited"
    /\ UNCHANGED <<libvars, argv, env, impacts, llm_calls>>

\* lines 101-110: print the error object; the script ends, exit status 0
ExceptHandler ==
    /\ pc = "except"
    /\ stdout' = Append(stdout, ErrorResult("estimator failure"))
    /\ pc' = "exited"
    /\ UNCHANGED <<libvars, argv, env, impacts, exit_code, llm_calls>>

Next ==
    \/ ParseArgs
    \/ DetectProvider
    \/ MapModel
    \/ ModelNotFound
    \/ ModelFound
    \/ CallEstimator
    \/ PrintResult
    \/ ExceptHandler

Spec == Init /\ [][Next]_vars

-----------------------------------------------------------------------------
(* Properties of the library (checked under SpecMapper).                   *)

\* the canonical names the registry lists under provider p
Canonical(p) ==
    IF p \in DOMAIN ECOLOGITS_MODELS
    THEN { ECOLOGITS_MODELS[p][i] : i \in 1..Len(ECOLOGITS_MODELS[p]) }
    ELSE {}

\* the alias strings one canonical name registers in its provider's table
AliasesOf(p, name) == DOMAIN AddModel(EmptyDict, p, name)

\* a different name listed after position i of p's list registers alias s too
LaterWriter(p, i, s) ==
    \E j \in (i + 1)..Len(ECOLOGITS_MODELS[p]) :
        /\ ECOLOGITS_MODELS[p][j] # ECOLOGITS_MODELS[p][i]
        /\ s \in AliasesOf(p, ECOLOGITS_MODELS[p][j])

Mapped == call.op = "get_model_mapping" /\ call.state = "returned"
Detected == call.op = "detect_provider" /\ call.state = "returned"

EndsWithLatest(m) ==
    /\ Len(m) >= Len(seg_latest)
    /\ SubSeq(m, Len(m) - Len(seg_latest) + 1, Len(m)) = seg_latest

StripLatest(m) == SubSeq(m, 1, Len(m) - Len(seg_latest))

\* C1 as stated: for every provider p of the registry and every canonical name m
\* of p's list, whatever the list holds, get_model_mapping(p, m) returns m and
\* get_model_mapping(p, lowercase(m)) returns m.
C1_IdentityAndLowercase ==
    (Mapped /\ call.provider \in DOMAIN ECOLOGITS_MODELS) =>
        \A m \in Canonical(call.provider) :
            (call.model_name = m \/ call.model_name = Lower(m)) => call.result = m

\* C1 amended: get_model_mapping(p, m) and get_model_mapping(p, lowercase(m))
\* return m provided no different name listed after m in p's list registers
\* that same string as one of its own aliases (the last write wins).
C1_IdentityUnlessOverwritten ==
    (Mapped /\ call.provider \in DOMAIN ECOLOGITS_MODELS) =>
        \A i \in 1..Len(ECOLOGITS_MODELS[call.provider]) :
            LET m == ECOLOGITS_MODELS[call.provider][i]
            IN  ( /\ (call.model_name = m \/ call.model_name = Lower(m))
                  /\ ~LaterWriter(call.provider, i, call.model_name) )
                => call.result = m

\* the lowercase form of a mixed-case canonical name, listed first of two,
\* resolved to that name
C1_Witness ==
    /\ Mapped
    /\ call.provider \in DOMAIN ECOLOGITS_MODELS
    /\ Len(ECOLOGITS_MODELS[call.provider]) = 2
    /\ LET m == ECOLOGITS_MODELS[call.provider][1]
       IN  /\ Lower(m) # m
           /\ call.model_name = Lower(m)
           /\ ~LaterWriter(call.provider, 1, call.model_name)
           /\ call.result = m

\* C2: get_model_mapping(p, s) returns None or a canonical name of the
\* registry's list for that same provider p, never any other string.
C2_NoFabricatedName ==
    Mapped => (call.result = NoneVal \/ call.result \in Canonical(call.provider))

\* an alias that is no canonical name resolved to a canonical name
C2_Witness ==
    /\ Mapped
    /\ call.model_name = n_claude_3dot5_sonnet
    /\ call.model_name \notin Canonical(call.provider)
    /\ call.result \in Canonical(call.provider)

\* the declaration order of the Provider Keyword Table
DeclaredOrder == <<"anthropic", "google", "xai", "mistralai", "cohere", "openai">>

Pos(p) == CHOOSE i \in 1..Len(DeclaredOrder) : DeclaredOrder[i] = p

KeywordsOf(p) ==
    UNION { { PROVIDER_KEYWORDS[i].keywords[k] :
                k \in 1..Len(PROVIDER_KEYWORDS[i].keywords) } :
            i \in { x \in 1..Len(PROVIDER_KEYWORDS) : PROVIDER_KEYWORDS[x].provider = p } }

\* some keyword of provider p is a substring of lowercase(s)
Matches(p, s) == \E k \in KeywordsOf(p) : Contains(Lower(s), k)

\* C5: detect_provider(s) is the first provider, in declaration order, that has a
\* keyword occurring in lowercase(s); inputs differing only in letter case get
\* the same result; a name with both "claude" and "mistral" yields anthropic.
C5_FirstMatchInDeclarationOrder ==
    Detected =>
        /\ \A p \in ProviderIds :
              ( /\ Matches(p, call.model_name)
                /\ \A q \in ProviderIds : Pos(q) < Pos(p) => ~Matches(q, call.model_name) )
              => call.provider = p
        /\ detect_provider(Upper(call.model_name)) = call.provider
        /\ detect_provider(Lower(call.model_name)) = call.provider
        /\ ( /\ Contains(Lower(call.model_name), kw_claude)
             /\ Contains(Lower(call.model_name), kw_mistral) )
           => call.provider = "anthropic"

\* "Mistral-Claude" names mistral first and in mixed case, and yields anthropic
C5_Witness ==
    /\ Detected
    /\ call.model_name = n_Mistral_Claude
    /\ Matches("mistralai", call.model_name)
    /\ call.provider = "anthropic"

\* C6: detect_provider always returns a key of the Provider Keyword Table, and
\* returns "openai" exactly when no keyword of any provider occurs in lowercase(s).
C6_DefaultIffNoKeyword ==
    Detected =>
        /\ call.provider \in { DeclaredOrder[i] : i \in 1..Len(DeclaredOrder) }
        /\ (call.provider = "openai") <=>
               (\A p \in ProviderIds : ~Matches(p, call.model_name))

\* "some-unknown-model-xyz" fell back to the default provider
C6_Witness ==
    /\ Detected
    /\ call.model_name = n_some_unknown_model_xyz
    /\ call.provider = "openai"

\* C7 as stated: for every anthropic canonical name m ending in "-latest", the
\* name with the suffix stripped resolves to m, whatever else the list holds.
C7_StrippedLatestResolves ==
    (Mapped /\ call.provider = "anthropic") =>
        \A m \in Canonical("anthropic") :
            (EndsWithLatest(m) /\ call.model_name = StripLatest(m)) => call.result = m

\* C7 amended: for an anthropic canonical name m that ends in "-latest" and
\* holds "-latest" nowhere else, the stripped name resolves to m provided no
\* different name listed after m registers the stripped name as an alias of its own.
C7_StrippedLatestUnlessOverwritten ==
    (Mapped /\ call.provider = "anthropic") =>
        \A i \in 1..Len(ECOLOGITS_MODELS["anthropic"]) :
            LET m == ECOLOGITS_MODELS["anthropic"][i]
            IN  ( /\ EndsWithLatest(m)
                  /\ ~Contains(StripLatest(m), seg_latest)
                  /\ call.model_name = StripLatest(m)
                  /\ ~LaterWriter("anthropic", i, call.model_name) )
                => call.result = m

\* "claude-3-5-sonnet" resolved to "claude-3-5-sonnet-latest" although it is
\* itself a canonical name, listed before the "-latest" one
C7_Witness ==
    /\ Mapped
    /\ call.provider = "anthropic"
    /\ ECOLOGITS_MODELS["anthropic"] = <<n_claude_3_5_sonnet, n_claude_3_5_sonnet_latest>>
    /\ call.model_name = StripLatest(n_claude_3_5_sonnet_latest)
    /\ call.result = n_claude_3_5_sonnet_latest

\* the string with "claude-3.5-" substituted for "claude-3-5-"
DotVariant(m) == Replace(m, seg_claude_3_5, seg_claude_3dot5)

\* C8 as stated: for every anthropic canonical name m containing "claude-3-5-",
\* its "-3.5-" variant resolves back to m, whatever else the list holds.
C8_DotVariantResolves ==
    (Mapped /\ call.provider = "anthropic") =>
        \A m \in Canonical("anthropic") :
            (Contains(m, seg_claude_3_5) /\ call.model_name = DotVariant(m))
            => call.result = m

\* C8 amended: the "-3.5-" variant of m resolves back to m provided no different
\* name listed after m (such as its "-latest" sibling) registers that variant too.
C8_DotVariantUnlessOverwritten ==
    (Mapped /\ call.provider = "anthropic") =>
        \A i \in 1..Len(ECOLOGITS_MODELS["anthropic"]) :
            LET m == ECOLOGITS_MODELS["anthropic"][i]
            IN  ( /\ Contains(m, seg_claude_3_5)
                  /\ call.model_name = DotVariant(m)
                  /\ ~LaterWriter("anthropic", i, call.model_name) )
                => call.result = m

\* "claude-3.5-sonnet" resolved to "claude-3-5-sonnet", listed after its
\* "-latest" sibling
C8_Witness ==
    /\ Mapped
    /\ call.provider = "anthropic"
    /\ ECOLOGITS_MODELS["anthropic"] = <<n_claude_3_5_sonnet_latest, n_claude_3_5_sonnet>>
    /\ call.model_name = n_claude_3dot5_sonnet
    /\ call.result = n_claude_3_5_sonnet

\* C9: for a provider id that is no key of the registry, get_model_mapping
\* returns None for every model name.
C9_UnknownProviderAbsent ==
    (Mapped /\ call.provider \notin DOMAIN ECOLOGITS_MODELS) => call.result = NoneVal

\* "gpt-4", which openai lists, looked up under cohere, which the registry lacks
C9_Witness ==
    /\ Mapped
    /\ call.provider = "cohere"
    /\ call.provider \notin DOMAIN ECOLOGITS_MODELS
    /\ call.model_name \in Canonical("openai")
    /\ call.result = NoneVal


-----------------------------------------------------------------------------
(* Properties of the process (checked under Spec).                         *)

ImpactKeys == {"gwp_g", "pe_mj", "adpe_kgsbeq", "energy_kwh"}

SuccessKeys ==
    {"usage", "embodied", "model", "input_tokens", "output_tokens", "total_tokens",
     "latency"}

\* the alias table of the provider detected for the name on the command line
DetectedTable ==
    LET tables == build_model_cache(ECOLOGITS_MODELS)
        p == detect_provider(argv[4])
    IN  IF p \in DOMAIN tables THEN tables[p] ELSE EmptyDict

\* the detected provider's alias table has no entry for the model name
NoAliasEntry ==
    /\ argv[4] \notin DOMAIN DetectedTable
    /\ Lower(argv[4]) \notin DOMAIN DetectedTable

\* the run is one of the three failure paths
FailurePath == ~ArgsParse(argv) \/ NoAliasEntry \/ impacts.raised

\* C3: every run writes exactly one JSON object to standard output; it always
\* holds gwp_g, pe_mj, adpe_kgsbeq and energy_kwh; on every failure path the
\* four are zero and the object has an error field and no success field.
C3_OneJsonObject ==
    /\ Len(stdout) <= 1
    /\ pc = "exited" =>
          /\ Len(stdout) = 1
          /\ ImpactKeys \subseteq DOMAIN stdout[1]
          /\ FailurePath =>
                /\ \A k \in ImpactKeys : stdout[1][k] = 0
                /\ "error" \in DOMAIN stdout[1]
                /\ SuccessKeys \cap DOMAIN stdout[1] = {}

\* a run whose model name has no alias ended with its one error object
C3_Witness ==
    /\ pc = "exited"
    /\ ArgsParse(argv)
    /\ NoAliasEntry
    /\ Len(stdout) = 1
    /\ "error" \in DOMAIN stdout[1]

\* C4: the exit status is 1 when argument parsing fails and when the detected
\* provider's alias table has no entry for the model name; it is 0 on success
\* and when the external estimator fails.
C4_ExitStatus ==
    pc = "exited" =>
        IF ~ArgsParse(argv) THEN exit_code = 1
        ELSE IF NoAliasEntry THEN exit_code = 1
        ELSE exit_code = 0

\* a run whose estimator call failed ended with its error object and status 0
C4_Witness ==
    /\ pc = "exited"
    /\ impacts.raised
    /\ "error" \in DOMAIN stdout[1]
    /\ exit_code = 0

\* C10: the estimator is invoked at most once, only after the arguments parsed,
\* the provider was detected and the mapper returned a canonical name; it gets
\* the detected provider, the mapped canonical name (not the raw name), the
\* output token count, the latency and the zone; with invalid arguments or an
\* absent mapping it is never invoked.
C10_EstimatorCall ==
    /\ Len(llm_calls) <= 1
    /\ pc \in {"parse", "detect", "map", "check", "estimate"} => llm_calls = <<>>
    /\ llm_calls # <<>> =>
          /\ ArgsParse(argv)
          /\ ~NoAliasEntry
          /\ llm_calls[1].provider = detect_provider(argv[4])
          /\ llm_calls[1].model_name \in Canonical(detect_provider(argv[4]))
          /\ llm_calls[1].model_name =
                 IF argv[4] \in DOMAIN DetectedTable THEN DetectedTable[argv[4]]
                 ELSE DetectedTable[Lower(argv[4])]
          /\ llm_calls[1].output_token_count = IntValue(argv[2])
          /\ llm_calls[1].request_latency = FloatValue(argv[3])
          /\ llm_calls[1].electricity_mix_zone =
                 IF Len(argv) > 4 THEN argv[5] ELSE NoneVal

\* the estimator was called with a canonical name that differs from the raw
\* name of the command line
C10_Witness ==
    /\ Len(llm_calls) = 1
    /\ argv[4] = n_claude_3dot5_sonnet
    /\ llm_calls[1].model_name # argv[4]
    /\ llm_calls[1].model_name \in Canonical("anthropic")
    /\ llm_calls[1].electricity_mix_zone = a_FRA

=============================================================================
